---- MODULE Spec2Model ----
(***************************************************************************)
(* The RCON client of asa_ctrl (src/asa_ctrl/rcon.py): the packet codec,   *)
(* the connection / authentication flags, the retry wrapper and the        *)
(* multi-packet response loop of _send_packet, run against a server that   *)
(* may put any frame of a small alphabet on the connection at any time.    *)
(***************************************************************************)
EXTENDS Integers, Sequences, FiniteSets, TLC

(***************************************************************************)
(* Program constants                                                       *)
(***************************************************************************)
MAX_PACKET_SIZE == 4096
MIN_PACKET_SIZE == 12
MAX_COMMAND_LENGTH == 1000
RESPONSE_VALUE == 0
EXEC_COMMAND == 2
AUTH_RESPONSE == 2
AUTH == 3
DEFAULT_RETRY_DELAY == 1

(***************************************************************************)
(* Bounds of the model                                                     *)
(***************************************************************************)
\* retry_count ranges over 0..MaxRetry
MaxRetry == 1
\* sockets this process may hold open at once
MaxSockets == 2
\* packets a single exchange accepts before the server falls silent
MaxResp == 3
\* seconds the wall clock advances over a behaviour
MaxTime == 1
\* calls of _launch_server_once in one run of the supervisor
MaxCalls == 3
\* signals the supervisor receives in one run
MaxSignals == 2
\* restart windows the scheduler goes through
MaxCycles == 2
\* minutes from the current minute to the next scheduled restart, at most
MaxAhead == 3
\* ticks of the scheduler's clock in one minute
TicksPerMinute == 2
\* ticks by which a sleep of the scheduler may overshoot
MaxLate == 1

(***************************************************************************)
(* Bytes and the struct codec                                              *)
(***************************************************************************)
\* struct.pack('<I', n) for 0 <= n < 2^31
PackU(n) ==
    << n % 256, (n \div 256) % 256, (n \div 65536) % 256, (n \div 16777216) % 256 >>

\* struct.pack('<i', n): two's complement, little-endian
PackI(n) ==
    IF n >= 0 THEN PackU(n)
    ELSE LET m == (n + 2147483647) + 1
             b == PackU(m)
         IN  << b[1], b[2], b[3], b[4] + 128 >>

\* struct.unpack('<I', b): values of 2^31 and above are clamped to 2^31 - 1,
\* they are only ever compared with 10 and MAX_PACKET_SIZE - 4
UnpackU(b) ==
    IF b[4] >= 128 THEN 2147483647
    ELSE b[1] + 256 * b[2] + 65536 * b[3] + 16777216 * b[4]

\* the id read as unsigned, '<I' in place of '<i'
UnpackI_unsigned(b) == UnpackU(b)

\* struct.unpack('<i', b): the top byte carries the sign
UnpackI(b) ==
    LET high == IF b[4] >= 128 THEN b[4] - 256 ELSE b[4]
    IN  b[1] + 256 * b[2] + 65536 * b[3] + 16777216 * high

\* seq[from..] and seq[..to] of Python slicing
Drop(s, n) == IF n >= Len(s) THEN <<>> ELSE SubSeq(s, n + 1, Len(s))
Take(s, n) == IF n >= Len(s) THEN s ELSE SubSeq(s, 1, n)

\* bytes.find(b'\x00'): 1-based position of the first NUL, 0 when there is none
FindNul(s) ==
    IF \E i \in 1..Len(s) : s[i] = 0
    THEN CHOOSE i \in 1..Len(s) : s[i] = 0 /\ \A j \in 1..(i - 1) : s[j] # 0
    ELSE 0

\* one trailing NUL is dropped, the bytes are not cut at the first NUL left
_extract_body_bytes_no_cut(body_data) ==
    IF body_data # <<>> /\ body_data[Len(body_data)] = 0
    THEN Take(body_data, Len(body_data) - 1)
    ELSE body_data

\* _extract_body_bytes: drop one trailing NUL, then cut at the first NUL left
_extract_body_bytes(body_data) ==
    LET trimmed == IF body_data # <<>> /\ body_data[Len(body_data)] = 0
                   THEN Take(body_data, Len(body_data) - 1)
                   ELSE body_data
        null_pos == FindNul(trimmed)
    IN  IF null_pos > 0 THEN Take(trimmed, null_pos - 1) ELSE trimmed

\* bytes.decode('utf-8', errors='replace') on single bytes: ASCII is kept, a
\* byte that starts no valid sequence becomes U+FFFD
Utf8Decode(bytes) ==
    [i \in 1..Len(bytes) |-> IF bytes[i] < 128 THEN bytes[i] ELSE 65533]

\* str.encode('utf-8') on code points below 128
Utf8Encode(str) == str

\* _decode_packet_body
_decode_packet_body(body_data) == Utf8Decode(_extract_body_bytes(body_data))

\* the request frame built by _send_packet
EncodeRequest(packet_id, packet_type, data_bytes) ==
    PackU(10 + Len(data_bytes)) \o PackI(packet_id) \o PackI(packet_type)
        \o data_bytes \o <<0, 0>>

\* int(time.time()) % 2**31
RequestId(t) == t - ((t \div 1073741824) \div 2) * 1073741824 * 2

(***************************************************************************)
(* Exceptions, packets and results as values                               *)
(***************************************************************************)
NoExc == [kind |-> "None", msg |-> ""]
Exc(kind, msg) == [kind |-> kind, msg |-> msg]

\* RconPacket(size, id, type, body)
RconPacket(size, id, type, body) ==
    [size |-> size, id |-> id, type |-> type, body |-> body]
NoPacket == RconPacket(0, 0, 0, <<>>)

Returned(body) == [kind |-> "ok", exc |-> NoExc, body |-> body]
Raised(e) == [kind |-> "raise", exc |-> e, body |-> <<>>]
NoResult == [kind |-> "none", exc |-> NoExc, body |-> <<>>]

(***************************************************************************)
(* The server: the frames it may put on the connection                     *)
(***************************************************************************)
\* a frame in the wire format: size, id, type, body, two NUL bytes
ServerFrame(id, type, body) ==
    PackU(10 + Len(body)) \o PackI(id) \o PackI(type) \o body \o <<0, 0>>

ServerTypes == {RESPONSE_VALUE, AUTH_RESPONSE}
ServerBodies == {<<>>, <<65>>, <<66>>}

\* What the server may send while request pid is outstanding and the client
\* has accepted count packets: frames that carry pid (of either type as the
\* first packet, RESPONSE_VALUE as a continuation), a frame that carries
\* another id, frames that carry the -1 sentinel, and two frames whose size
\* field is out of range
ServerFrames(pid, count) ==
    {ServerFrame(pid, ty, b) :
        ty \in (IF count = 0 THEN ServerTypes ELSE {RESPONSE_VALUE}), b \in ServerBodies}
    \cup {ServerFrame(pid + 1, RESPONSE_VALUE, <<66>>)}
    \cup {ServerFrame(-1, ty, b) :
        ty \in (IF count = 0 THEN ServerTypes ELSE {AUTH_RESPONSE}), b \in {<<>>, <<65>>}}
    \cup {PackU(9), PackU(MAX_PACKET_SIZE - 3)}

(***************************************************************************)
(* Pure parts of the client                                                *)
(***************************************************************************)
\* str.strip(): the white space of str.isspace
IsSpace(c) == c \in {9, 10, 11, 12, 13, 28, 29, 30, 31, 32, 133, 160}

RECURSIVE LStrip(_)
LStrip(s) == IF s # <<>> /\ IsSpace(Head(s)) THEN LStrip(Tail(s)) ELSE s

RECURSIVE RStrip(_)
RStrip(s) ==
    IF s # <<>> /\ IsSpace(s[Len(s)]) THEN RStrip(Take(s, Len(s) - 1)) ELSE s

Strip(s) == RStrip(LStrip(s))

\* ''.join(char for char in command if ord(char) >= 32 or char in '\t\n\r')
RECURSIVE Sanitize(_)
Sanitize(s) ==
    IF s = <<>> THEN <<>>
    ELSE IF Head(s) >= 32 \/ Head(s) \in {9, 10, 13}
         THEN <<Head(s)>> \o Sanitize(Tail(s))
         ELSE Sanitize(Tail(s))

\* _validate_command: [exc, command]
_validate_command(command) ==
    IF command = <<>>
    THEN [exc |-> Exc("ValueError", "Command must be a non-empty string"), command |-> <<>>]
    ELSE IF Len(Strip(command)) > MAX_COMMAND_LENGTH
    THEN [exc |-> Exc("ValueError", "Command too long"), command |-> <<>>]
    ELSE IF Sanitize(Strip(command)) = <<>>
    THEN [exc |-> Exc("ValueError", "Command contains only invalid characters"), command |-> <<>>]
    ELSE [exc |-> NoExc, command |-> Sanitize(Strip(command))]

\* the test against MAX_PACKET_SIZE left out
_validate_packet_data_no_max(data) ==
    IF data = <<>> THEN Exc("RconPacketError", "Received empty packet")
    ELSE IF Len(data) < MIN_PACKET_SIZE THEN Exc("RconPacketError", "Packet too small")
    ELSE NoExc

\* _validate_packet_data: the exception it raises, or NoExc
_validate_packet_data(data) ==
    IF data = <<>> THEN Exc("RconPacketError", "Received empty packet")
    ELSE IF Len(data) < MIN_PACKET_SIZE THEN Exc("RconPacketError", "Packet too small")
    ELSE IF Len(data) > MAX_PACKET_SIZE THEN Exc("RconPacketError", "Packet too large")
    ELSE NoExc

\* except Exception: every exception is retried
IsTransient_all(kind) == kind # "None"

\* the exception kinds _with_retry catches
IsTransient(kind) ==
    kind \in {"socket.timeout", "socket.error", "RconPacketError",
              "RconConnectionError", "RconTimeoutError"}

\* one attempt too many: attempt <= self.retry_count
ShouldRetry_inclusive(attempt, count) == attempt <= count

\* if attempt < self.retry_count
ShouldRetry(attempt, count) == attempt < count

\* delay = self.retry_delay * (2 ** attempt)
retry_delay == DEFAULT_RETRY_DELAY
Backoff(attempt) == retry_delay * (2 ^ attempt)

\* the timeout is raised however many packets were accepted
TimeoutEndsLoop_never(count) == FALSE

\* except RconTimeoutError: if response_count: break
TimeoutEndsLoop(count) == count > 0

\* if packet_type == RconPacketTypes.AUTH and response_id == -1
IsAuthSentinel(ptype, response_id) == ptype = AUTH /\ response_id = -1

\* the id check dropped: every packet is taken for an answer to the request
IdMismatch_never(response_id, pid) == FALSE

\* if response_id != packet_id
IdMismatch(response_id, pid) == response_id # pid

\* response_type or packet_type: None and 0 are both falsy
ObservedType(rtype, ptype) ==
    IF rtype = <<>> \/ rtype[1] = 0 THEN ptype ELSE rtype[1]

\* _receive_full_packet on the bytes the server queued as one unit: the size
\* field is read and checked, then exactly that many bytes are read; fewer
\* bytes than declared leave the read waiting until it times out
_receive_full_packet(frame) ==
    LET size_data == Take(frame, 4)
        packet_size == UnpackU(size_data)
    IN  IF Len(frame) < 4
        THEN [exc |-> Exc("RconTimeoutError", "Timeout while receiving data"), data |-> <<>>]
        ELSE IF packet_size < 10
        THEN [exc |-> Exc("RconPacketError", "Invalid packet size"), data |-> <<>>]
        ELSE IF packet_size > MAX_PACKET_SIZE - 4
        THEN [exc |-> Exc("RconPacketError", "Packet size too large"), data |-> <<>>]
        ELSE IF Len(frame) - 4 < packet_size
        THEN [exc |-> Exc("RconTimeoutError", "Timeout while receiving data"), data |-> <<>>]
        ELSE [exc |-> NoExc, data |-> size_data \o SubSeq(frame, 5, 4 + packet_size)]

\* One pass of the loop body of _send_packet on a received packet, from
\* _validate_packet_data to the poll.  ctl says how the pass ends:
\*   "raise"  an exception leaves _send_packet (drain: after _drain_socket)
\*   "return" the authentication sentinel is returned at once, after a drain
\*   "break"  the loop ends, the accumulated body is returned
\*   "poll"   the packet was accepted, _wait_for_additional_packet decides
ProcessResponse(response_data, ptype, pid, count, rtype, body) ==
    LET invalid == _validate_packet_data(response_data)
        declared_size == UnpackU(SubSeq(response_data, 1, 4))
        response_id == UnpackI(SubSeq(response_data, 5, 8))
        current_type == UnpackI(SubSeq(response_data, 9, 12))
        body_bytes == _extract_body_bytes(Drop(response_data, 12))
        keep == [ctl |-> "break", exc |-> NoExc, drain |-> FALSE, packet |-> NoPacket,
                 response_count |-> count, response_type |-> rtype, combined_body |-> body]
    IN  IF invalid # NoExc
        THEN [keep EXCEPT !.ctl = "raise", !.exc = invalid]
        ELSE IF declared_size < 10
        THEN [keep EXCEPT !.ctl = "raise", !.exc = Exc("RconPacketError", "Invalid response size")]
        ELSE IF declared_size # Len(response_data) - 4
        THEN [keep EXCEPT !.ctl = "raise", !.exc = Exc("RconPacketError", "Size mismatch")]
        ELSE IF IsAuthSentinel(ptype, response_id)
        THEN [keep EXCEPT !.ctl = "return", !.drain = TRUE,
                          !.packet = RconPacket(declared_size, response_id, current_type,
                                                _decode_packet_body(Drop(response_data, 12)))]
        ELSE IF IdMismatch(response_id, pid)
        THEN IF count = 0
             THEN [keep EXCEPT !.ctl = "raise", !.drain = TRUE,
                               !.exc = Exc("RconPacketError", "Unexpected response ID")]
             ELSE keep
        ELSE LET accepted == [keep EXCEPT !.response_count = count + 1,
                                         !.response_type = IF rtype = <<>> THEN <<current_type>> ELSE rtype]
             IN  IF body_bytes = <<>>
                 THEN accepted
                 ELSE [accepted EXCEPT !.ctl = "poll", !.combined_body = body \o body_bytes]

\* the packet _send_packet returns when its loop ends
FinalPacket(ptype, pid, rtype, body) ==
    RconPacket(10 + Len(body), pid, ObservedType(rtype, ptype), Utf8Decode(body))

(***************************************************************************)
(* State                                                                   *)
(***************************************************************************)
VARIABLES
    socket,           \* self.socket: 0 is None, otherwise the socket held
    _connected,       \* self._connected
    _authenticated,   \* self._authenticated
    retry_count,      \* self.retry_count
    open,             \* the sockets of this process that are open
    now,              \* the wall clock, in seconds, at the last reading
    pc,               \* where the client is, "idle" between public calls
    call,             \* the public call in progress or last made
    inner,            \* the operation _with_retry is running
    attempt,          \* the loop variable of _with_retry
    exc,              \* the exception in flight
    command,          \* the argument of execute_command
    packet_type,      \* _send_packet: the request's type
    combined_body,    \* _send_packet: the bytes accumulated
    response_count,   \* _send_packet: the packets accepted
    response_type,    \* _send_packet: <<>> is None, <<t>> the first type seen
    response,         \* the RconPacket _send_packet returned
    result,           \* how the last public call ended
    hist,             \* what happened during the call, for the properties
    late,             \* <<f>>: a frame f that reached the socket after the last drain
    codec,            \* a packet on its way through encoding and decoding
    timeouts,         \* the timeouts of the client and the one its socket has
    supervisor,       \* ServerSupervisor: its attributes and where run() is
    scheduler         \* run_scheduler: its locals and what it has done

vars == << socket, _connected, _authenticated, retry_count, open, now,
           pc, call, inner, attempt, exc, command, packet_type, combined_body,
           response_count, response_type, response, result, hist, late, codec,
           timeouts, supervisor, scheduler >>

\* the variables of the client
client == << socket, _connected, _authenticated, retry_count, open, now,
             pc, call, inner, attempt, exc, command, packet_type, combined_body,
             response_count, response_type, response, result, hist >>

session == << socket, _connected, _authenticated, open >>
locals == << packet_type, combined_body, response_count, response_type >>

\* the request id of the exchange in progress
packet_id == RequestId(now)

\* the history of one public call
NoHist ==
    [fresh |-> FALSE,          \* the call is the first one on this client
     sleeps |-> <<>>,          \* the delays _with_retry slept, in order
     invocations |-> 0,        \* calls of the operation by this _with_retry
     first_exc |-> "None",     \* the kind the first attempt of this _with_retry raised
     rx |-> <<>>,              \* what the exchange read: frames, timeouts, polls
     drained |-> FALSE,        \* _drain_socket ran in this exchange
     exec_sent |-> 0,          \* EXEC_COMMAND requests sent by this call
     prev_socket |-> 0,        \* the socket held when the last retried attempt failed,
                               \* or when close() was called
     opened |-> 0,             \* sockets created by this call
     new_socket |-> 0,         \* the last socket this call connected
     sendall |-> 0,            \* calls of socket.sendall by this call
     close_error |-> FALSE,    \* socket.close() raised inside close()
     authed |-> 0,             \* the socket on which _authenticate last succeeded, kept
                               \* from call to call until a new socket is created
     discarded |-> <<>>]       \* frames _drain_socket threw away unread in this exchange

Rx(ev, data) == [ev |-> ev, data |-> data]

\* a command of MAX_COMMAND_LENGTH + 1 characters
LongCommand == [i \in 1..(MAX_COMMAND_LENGTH + 1) |-> 65]

\* the empty command, one of control characters only, one that is too long,
\* one that is valid once stripped
Commands == {<<>>, <<1>>, LongCommand, <<32, 65>>}

ClientInit ==
    /\ socket = 0
    /\ _connected = FALSE
    /\ _authenticated = FALSE
    /\ retry_count \in 0..MaxRetry
    /\ open = {}
    /\ now = 0
    /\ pc = "idle"
    /\ call = "none"
    /\ inner = "none"
    /\ attempt = 0
    /\ exc = NoExc
    /\ command = <<>>
    /\ packet_type = 0
    /\ combined_body = <<>>
    /\ response_count = 0
    /\ response_type = <<>>
    /\ response = NoPacket
    /\ result = NoResult
    /\ hist = NoHist
    /\ late = <<>>

\* no packet is on its way through the codec
NoCodec ==
    [stage |-> "off", id |-> 0, type |-> 0, body |-> <<>>, intact |-> TRUE,
     wire |-> <<>>, packet |-> NoPacket, prior |-> <<>>, pass |-> <<>>]

\* the floor of connect_timeout and read_timeout: max(1.0, ...)
MIN_TIMEOUT == 1

\* RconClient() with the default timeouts, before any socket exists
NoTimeouts ==
    [stage |-> "off", given_connect |-> 30, given_read |-> 10,
     connect_timeout |-> 30, read_timeout |-> 10,
     op |-> "none", arg |-> <<>>, applied |-> 0]

\* ServerSupervisor before run() is called
NoSupervisor ==
    [pc |-> "off",
     server_process |-> "None",          \* None, or a Popen "running" or "exited"
     shutdown_in_progress |-> FALSE,
     supervisor_exit_requested |-> FALSE,
     restart_requested |-> FALSE,
     exit_code |-> 1,                    \* the local of run()
     returncode |-> 0,                   \* what server_process.wait() will return
     calls |-> 0,                        \* calls of _launch_server_once
     launches |-> 0,                     \* server processes started
     signals |-> 0,                      \* signals handled
     signalled |-> FALSE]                \* a shutdown signal has been handled

\* run_scheduler before it is called
NoScheduler == [pc |-> "off"]

\* what the runs of the client leave alone: the codec on its own, the
\* timeouts, the supervisor and the scheduler
bench == << codec, timeouts, supervisor, scheduler >>

\* the parts of the model that are not running
Idle(parts) ==
    /\ "client" \in parts => ClientInit /\ retry_count = 0
    /\ "codec" \in parts => codec = NoCodec
    /\ "timeouts" \in parts => timeouts = NoTimeouts
    /\ "supervisor" \in parts => supervisor = NoSupervisor
    /\ "scheduler" \in parts => scheduler = NoScheduler

Init ==
    /\ ClientInit
    /\ codec = NoCodec
    /\ timeouts = NoTimeouts
    /\ supervisor = NoSupervisor
    /\ scheduler = NoScheduler

(***************************************************************************)
(* The public calls                                                        *)
(***************************************************************************)
\* _with_retry is entered: last_exception = None, the loop starts
EnterRetry(op) ==
    /\ inner' = op
    /\ attempt' = 0
    /\ exc' = NoExc
    /\ pc' = "attempt"

\* connect() without its first test: _with_retry(_connect_once) in every state
Connect_always ==
    /\ pc = "idle"
    /\ call' = "connect"
    /\ hist' = [NoHist EXCEPT !.authed = hist.authed, !.fresh = (call = "none")]
    /\ response' = NoPacket
    /\ EnterRetry("connect_once")
    /\ result' = NoResult
    /\ UNCHANGED << session, retry_count, bench, late, now, command, locals >>

\* connect(): nothing to do when connected and authenticated, otherwise
\* _with_retry(_connect_once)
Connect ==
    /\ pc = "idle"
    /\ call' = "connect"
    /\ hist' = [NoHist EXCEPT !.authed = hist.authed, !.fresh = (call = "none")]
    /\ response' = NoPacket
    /\ IF _connected /\ _authenticated
       THEN /\ result' = Returned(<<>>)
            /\ UNCHANGED << pc, inner, attempt, exc >>
       ELSE /\ EnterRetry("connect_once")
            /\ result' = NoResult
    /\ UNCHANGED << session, retry_count, bench, late, now, command, locals >>

\* only the connection is looked at: if not self._connected
NeedsConnect_connected_only(conn, auth) == ~conn

\* if not self._connected or not self._authenticated
NeedsConnect(conn, auth) == ~conn \/ ~auth

\* execute_command(command): the emptiness check, connect() when the session
\* is not connected and authenticated, then _with_retry(_execute_once)
ExecuteCommand ==
    /\ pc = "idle"
    /\ \E c \in Commands :
        /\ command' = c
        /\ call' = "execute"
        /\ hist' = [NoHist EXCEPT !.authed = hist.authed, !.fresh = (call = "none")]
        /\ response' = NoPacket
        /\ IF c = <<>>
           THEN /\ result' = Raised(Exc("ValueError", "Command must be a non-empty string"))
                /\ UNCHANGED << pc, inner, attempt, exc >>
           ELSE /\ result' = NoResult
                /\ IF NeedsConnect(_connected, _authenticated)
                   THEN EnterRetry("connect_once")
                   ELSE EnterRetry("execute_once")
    /\ UNCHANGED << session, retry_count, bench, late, now, locals >>

\* close() without its except clause: an error of socket.close() reaches the
\* caller, after the finally clause has dropped the socket
Close_propagates ==
    /\ pc = "idle"
    /\ call' = "close"
    /\ response' = NoPacket
    /\ _connected' = FALSE
    /\ _authenticated' = FALSE
    /\ socket' = 0
    /\ open' = open \ {socket}
    /\ \/ /\ hist' = [NoHist EXCEPT !.authed = hist.authed, !.fresh = (call = "none"), !.prev_socket = socket]
          /\ result' = Returned(<<>>)
       \/ /\ socket # 0
          /\ hist' = [NoHist EXCEPT !.authed = hist.authed, !.fresh = (call = "none"), !.prev_socket = socket,
                                    !.close_error = TRUE]
          /\ result' = Raised(Exc("socket.error", "close failed"))
    /\ late' = <<>>
    /\ UNCHANGED << retry_count, bench, now, pc, inner, attempt, exc, command, locals >>

\* close(): the flags are cleared; a socket that is held is closed and
\* dropped, and an error of its close() is swallowed.  The descriptor is
\* released whether socket.close() raises or not.
Close ==
    /\ pc = "idle"
    /\ call' = "close"
    /\ response' = NoPacket
    /\ _connected' = FALSE
    /\ _authenticated' = FALSE
    /\ socket' = 0
    /\ open' = open \ {socket}
    /\ \/ hist' = [NoHist EXCEPT !.authed = hist.authed, !.fresh = (call = "none"), !.prev_socket = socket]
       \/ /\ socket # 0
          /\ hist' = [NoHist EXCEPT !.authed = hist.authed, !.fresh = (call = "none"), !.prev_socket = socket,
                                    !.close_error = TRUE]
    /\ result' = Returned(<<>>)
    /\ late' = <<>>
    /\ UNCHANGED << retry_count, bench, now, pc, inner, attempt, exc, command, locals >>

(***************************************************************************)
(* Inside the calls                                                        *)
(***************************************************************************)
\* the locals of _send_packet when it is not running
ClearLocals ==
    /\ combined_body' = <<>>
    /\ response_count' = 0
    /\ response_type' = <<>>

\* _drain_socket ran: whatever had arrived was read and thrown away
Drained(h) == [h EXCEPT !.drained = TRUE]

\* An exception leaves _send_packet; conn is what the except clauses of
\* _send_packet, _receive_full_packet and _receive_exact leave in _connected
RaiseFromSendPacket(e, conn) ==
    /\ exc' = e
    /\ pc' = "sp_raise"
    /\ _connected' = conn
    /\ UNCHANGED _authenticated
    /\ ClearLocals

\* What the server has queued behind the packet on which the loop of
\* _send_packet broke, and _drain_socket throws away unread: nothing, or, in
\* the reply to AUTH, the AUTH_RESPONSE packet with id -1 of a server that
\* answers AUTH with an empty RESPONSE_VALUE packet and then its verdict
Behind(ptype) ==
    IF ptype = AUTH THEN {<<>>, << ServerFrame(-1, AUTH_RESPONSE, <<>>) >>} ELSE {<<>>}

\* _send_packet is entered: nothing read, nothing drained yet
NewExchange(h) == [h EXCEPT !.rx = <<>>, !.drained = FALSE, !.discarded = <<>>]

\* _send_packet returns a packet to _authenticate or _execute_once
ReturnFromSendPacket(packet) ==
    /\ response' = packet
    /\ pc' = "sp_done"
    /\ ClearLocals

\* the smallest socket that is not open
NewSocket == CHOOSE s \in (1..MaxSockets) \ open : \A o \in (1..MaxSockets) \ open : s <= o

\* The socket self.socket held loses its last reference when self.socket is
\* assigned: it is not closed by the client; the runtime closes it at once
\* when it counts references, and leaves it open otherwise.  The sets of
\* sockets that may be closed by the assignment.
Unreferenced == IF socket # 0 THEN {{}, {socket}} ELSE {{}}

\* _connect_once up to the call of _authenticate: a new socket replaces
\* self.socket, then socket.connect succeeds or fails; on a socket error
\* close() runs and the error is raised as RconTimeoutError or
\* RconConnectionError
ConnectOnce ==
    /\ pc = "attempt"
    /\ inner = "connect_once"
    /\ (1..MaxSockets) \ open # {}
    /\ \/ /\ socket' = NewSocket
          /\ hist' = [hist EXCEPT !.invocations = @ + 1, !.opened = @ + 1,
                                  !.new_socket = NewSocket, !.authed = 0]
          /\ \E gone \in Unreferenced : open' = (open \ gone) \cup {NewSocket}
          /\ _connected' = TRUE
          /\ packet_type' = AUTH
          /\ pc' = "send"
          /\ UNCHANGED << _authenticated, exc >>
       \/ /\ \E e \in {Exc("RconTimeoutError", "Timed out connecting to RCON server"),
                       Exc("RconConnectionError", "Failed to resolve hostname"),
                       Exc("RconConnectionError", "Failed to connect to RCON server")} :
                exc' = e
          /\ hist' = [hist EXCEPT !.invocations = @ + 1, !.opened = @ + 1, !.authed = 0]
          /\ socket' = 0
          /\ \E gone \in Unreferenced : open' = open \ gone
          /\ _connected' = FALSE
          /\ _authenticated' = FALSE
          /\ pc' = "except"
          /\ UNCHANGED packet_type
    /\ late' = <<>>
    /\ UNCHANGED << retry_count, bench, now, call, inner, attempt, command, combined_body,
                    response_count, response_type, response, result >>

\* _execute_once calls _send_packet(command, EXEC_COMMAND)
ExecuteOnce ==
    /\ pc = "attempt"
    /\ inner = "execute_once"
    /\ hist' = [hist EXCEPT !.invocations = @ + 1]
    /\ packet_type' = EXEC_COMMAND
    /\ pc' = "send"
    /\ UNCHANGED << session, retry_count, bench, late, now, call, inner, attempt, exc, command,
                    combined_body, response_count, response_type, response, result >>

\* _send_packet up to sendall: the connection check, the validation of a
\* command, the request id read from the clock, the send
SendPacket ==
    /\ pc = "send"
    /\ IF socket = 0 \/ ~_connected
       THEN /\ RaiseFromSendPacket(Exc("RconConnectionError", "Socket not connected"), _connected)
            /\ hist' = NewExchange(hist)
            /\ UNCHANGED now
       ELSE IF packet_type = EXEC_COMMAND /\ _validate_command(command).exc # NoExc
       THEN /\ RaiseFromSendPacket(_validate_command(command).exc, _connected)
            /\ hist' = NewExchange(hist)
            /\ UNCHANGED now
       ELSE /\ \E t \in {now, now + 1} \cap (0..MaxTime) : now' = t
            /\ \/ /\ pc' = "recv"
                  /\ ClearLocals
                  /\ hist' = [NewExchange(hist) EXCEPT
                                 !.sendall = @ + 1,
                                 !.exec_sent = IF packet_type = EXEC_COMMAND THEN @ + 1 ELSE @]
                  /\ UNCHANGED << _connected, _authenticated, exc >>
               \/ /\ RaiseFromSendPacket(Exc("RconTimeoutError", "Packet operation timed out"), _connected)
                  /\ hist' = [NewExchange(hist) EXCEPT !.sendall = @ + 1]
               \/ /\ RaiseFromSendPacket(Exc("RconConnectionError", "Socket error during packet operation"), FALSE)
                  /\ hist' = [NewExchange(hist) EXCEPT !.sendall = @ + 1]
    /\ UNCHANGED << socket, open, retry_count, bench, late, call, inner, attempt, command,
                    packet_type, response, result >>

\* the body of an answer that reaches the socket after the exchange it
\* belongs to has drained the socket and ended
LateBody == <<67>>

\* An answer to the EXEC_COMMAND of the call that has just ended reaches the
\* socket: it was not there yet when _drain_socket, which does not wait,
\* emptied the socket.  It carries the id of that request.
LateArrival ==
    /\ pc = "idle"
    /\ call = "execute"
    /\ hist.exec_sent > 0
    /\ hist.drained
    /\ socket # 0
    /\ _connected
    /\ late = <<>>
    /\ late' = << ServerFrame(packet_id, RESPONSE_VALUE, LateBody) >>
    /\ UNCHANGED << client, bench >>

\* One pass of the loop of _send_packet: _receive_full_packet, then the loop
\* body up to the poll.  The read finds the bytes that are in the socket
\* already, or else a frame the server sends now, or times out, or the
\* connection fails, or the server has closed it.
ReceivePacket ==
    /\ pc = "recv"
    /\ late' = <<>>
    /\ \/ \E frame \in (IF late # <<>> THEN {late[1]}
                         ELSE ServerFrames(packet_id, response_count)) :
          LET got == _receive_full_packet(frame)
              o == ProcessResponse(got.data, packet_type, packet_id, response_count,
                                   response_type, combined_body)
              seen == [hist EXCEPT !.rx = Append(@, Rx("frame", frame))]
          IN  IF got.exc # NoExc
              THEN /\ RaiseFromSendPacket(got.exc, _connected)
                   /\ hist' = seen
                   /\ UNCHANGED response
              ELSE IF o.ctl = "raise"
              THEN /\ RaiseFromSendPacket(o.exc, _connected)
                   /\ hist' = IF o.drain THEN Drained(seen) ELSE seen
                   /\ UNCHANGED response
              ELSE IF o.ctl = "return"
              THEN /\ ReturnFromSendPacket(o.packet)
                   /\ hist' = Drained(seen)
                   /\ UNCHANGED << _connected, _authenticated, exc >>
              ELSE IF o.ctl = "break"
              THEN /\ ReturnFromSendPacket(FinalPacket(packet_type, packet_id,
                                                       o.response_type, o.combined_body))
                   /\ \E behind \in Behind(packet_type) :
                         hist' = [Drained(seen) EXCEPT !.discarded = behind]
                   /\ UNCHANGED << _connected, _authenticated, exc >>
              ELSE /\ pc' = "poll"
                   /\ combined_body' = o.combined_body
                   /\ response_count' = o.response_count
                   /\ response_type' = o.response_type
                   /\ hist' = seen
                   /\ UNCHANGED << _connected, _authenticated, exc, response >>
       \/ /\ late = <<>>
          /\ IF TimeoutEndsLoop(response_count)
             THEN /\ ReturnFromSendPacket(FinalPacket(packet_type, packet_id,
                                                      response_type, combined_body))
                  /\ hist' = Drained([hist EXCEPT !.rx = Append(@, Rx("timeout", <<>>))])
                  /\ UNCHANGED << _connected, _authenticated, exc >>
             ELSE /\ RaiseFromSendPacket(Exc("RconTimeoutError", "Timeout while receiving data"), _connected)
                  /\ hist' = [hist EXCEPT !.rx = Append(@, Rx("timeout", <<>>))]
                  /\ UNCHANGED response
       \/ /\ RaiseFromSendPacket(Exc("RconConnectionError", "Connection error while receiving data"), FALSE)
          /\ hist' = [hist EXCEPT !.rx = Append(@, Rx("error", <<>>))]
          /\ UNCHANGED response
       \/ /\ late = <<>>
          /\ RaiseFromSendPacket(Exc("RconConnectionError", "Connection closed by remote host"), _connected)
          /\ hist' = [hist EXCEPT !.rx = Append(@, Rx("closed", <<>>))]
          /\ UNCHANGED response
    /\ UNCHANGED << socket, open, retry_count, bench, now, call, inner, attempt, command,
                    packet_type, result >>

\* _wait_for_additional_packet: the loop goes on when data is ready within
\* the wait, and ends, with a drain, when the socket stays quiet.  The server
\* falls silent once the exchange has accepted MaxResp packets.
WaitForAdditionalPacket ==
    /\ pc = "poll"
    /\ \/ /\ response_count < MaxResp
          /\ pc' = "recv"
          /\ hist' = [hist EXCEPT !.rx = Append(@, Rx("more", <<>>))]
          /\ UNCHANGED << locals, response >>
       \/ /\ ReturnFromSendPacket(FinalPacket(packet_type, packet_id,
                                              response_type, combined_body))
          /\ hist' = Drained([hist EXCEPT !.rx = Append(@, Rx("quiet", <<>>))])
          /\ UNCHANGED packet_type
    /\ UNCHANGED << session, retry_count, bench, late, now, call, inner, attempt, exc, command, result >>

\* An exception of _send_packet passes through the operation.  In
\* _authenticate the except clause for RconPacketError, RconTimeoutError and
\* RconConnectionError clears _authenticated and re-raises; the except clauses
\* of _connect_once name socket errors only and _execute_once has none, so the
\* exception reaches _with_retry as it is.
OperationExcept ==
    /\ pc = "sp_raise"
    /\ _authenticated' =
          IF packet_type = AUTH
             /\ exc.kind \in {"RconPacketError", "RconTimeoutError", "RconConnectionError"}
          THEN FALSE
          ELSE _authenticated
    /\ pc' = "except"
    /\ UNCHANGED << socket, _connected, open, retry_count, bench, late, now, call, inner, attempt, exc,
                    command, locals, response, result, hist >>

\* _authenticate without the test of the response id: whatever _send_packet
\* returned counts as a success
Authenticate_trusting ==
    /\ pc = "sp_done"
    /\ packet_type = AUTH
    /\ _authenticated' = TRUE
    /\ hist' = [hist EXCEPT !.authed = socket]
    /\ pc' = "op_ok"
    /\ UNCHANGED << socket, _connected, open, retry_count, bench, late, now, call, inner,
                    attempt, exc, command, locals, response, result >>

\* _authenticate after _send_packet returned, and the return of _connect_once
Authenticate ==
    /\ pc = "sp_done"
    /\ packet_type = AUTH
    /\ IF response.id = -1
       THEN /\ _authenticated' = FALSE
            /\ exc' = Exc("RconAuthenticationError", "server returned -1 response ID")
            /\ pc' = "except"
            /\ UNCHANGED hist
       ELSE /\ _authenticated' = TRUE
            /\ hist' = [hist EXCEPT !.authed = socket]
            /\ pc' = "op_ok"
            /\ UNCHANGED exc
    /\ UNCHANGED << socket, _connected, open, retry_count, bench, late, now, call, inner,
                    attempt, command, locals, response, result >>

\* _execute_once after _send_packet returned: the type check
ExecuteOnceCheck ==
    /\ pc = "sp_done"
    /\ packet_type = EXEC_COMMAND
    /\ IF response.type = RESPONSE_VALUE
       THEN /\ pc' = "op_ok"
            /\ UNCHANGED exc
       ELSE /\ exc' = Exc("RconPacketError", "Unexpected response type")
            /\ pc' = "except"
    /\ UNCHANGED << session, retry_count, bench, late, now, call, inner, attempt, command, locals,
                    response, result, hist >>

\* the flags are cleared, the socket is neither closed nor dropped
ResetConnectionState_flags_only ==
    /\ _connected' = FALSE
    /\ _authenticated' = FALSE
    /\ UNCHANGED << socket, open >>

\* the reset _with_retry makes before another attempt
ResetConnectionState ==
    /\ _connected' = FALSE
    /\ _authenticated' = FALSE
    /\ socket' = 0
    /\ open' = open \ {socket}

\* the except clause of _with_retry and what follows the loop: a transient
\* error with attempts left is slept on and the state is reset; any other
\* exception, and the last transient one, goes to the caller
WithRetryExcept ==
    /\ pc = "except"
    /\ IF IsTransient(exc.kind) /\ ShouldRetry(attempt, retry_count)
       THEN /\ hist' = [hist EXCEPT !.sleeps = Append(@, Backoff(attempt)),
                                    !.first_exc = IF attempt = 0 THEN exc.kind ELSE @,
                                    !.prev_socket = socket]
            /\ ResetConnectionState
            /\ attempt' = attempt + 1
            /\ exc' = NoExc
            /\ pc' = "attempt"
            /\ UNCHANGED result
       ELSE /\ hist' = [hist EXCEPT !.first_exc = IF attempt = 0 THEN exc.kind ELSE @]
            /\ result' = Raised(exc)
            /\ exc' = NoExc
            /\ pc' = "idle"
            /\ UNCHANGED << session, attempt >>
    /\ UNCHANGED << retry_count, bench, late, now, call, inner, command, locals, response >>

\* the operation returned: _with_retry returns its value.  connect() is done;
\* execute_command goes on from connect() to _with_retry(_execute_once),
\* and from there returns the body
WithRetryReturn ==
    /\ pc = "op_ok"
    /\ IF inner = "connect_once" /\ call = "execute"
       THEN /\ EnterRetry("execute_once")
            /\ hist' = [NewExchange(hist) EXCEPT !.sleeps = <<>>, !.invocations = 0,
                                                 !.first_exc = "None", !.prev_socket = 0]
            /\ UNCHANGED result
       ELSE /\ result' = Returned(IF inner = "execute_once" THEN response.body ELSE <<>>)
            /\ pc' = "idle"
            /\ UNCHANGED << inner, attempt, exc, hist >>
    /\ UNCHANGED << session, retry_count, bench, late, now, call, command, locals, response >>

Next ==
    \/ Connect
    \/ ExecuteCommand
    \/ Close
    \/ ConnectOnce
    \/ ExecuteOnce
    \/ SendPacket
    \/ ReceivePacket
    \/ WaitForAdditionalPacket
    \/ OperationExcept
    \/ Authenticate
    \/ ExecuteOnceCheck
    \/ WithRetryExcept
    \/ WithRetryReturn
    \/ LateArrival

Spec == Init /\ [][Next]_vars

(***************************************************************************)
(* The codec on its own: a packet is encoded as _send_packet encodes a     *)
(* request, the bytes are left as they are or damaged, and the loop body   *)
(* of _send_packet decodes them                                            *)
(***************************************************************************)
\* the smallest id, the sentinel, ids around zero, the largest id
CodecIds == {(-2147483647) - 1, -1, 0, 1, 2147483647}
CodecTypes == {RESPONSE_VALUE, AUTH_RESPONSE, AUTH}

\* bodies of ASCII characters: empty, short, with a NUL inside, a NUL alone,
\* and the longest a command may have
CodecBodies ==
    {<<>>, <<65>>, <<65, 66>>, <<65, 0, 66>>, <<0>>,
     [i \in 1..MAX_COMMAND_LENGTH |-> 65]}

\* the packet the code builds from one frame: the header fields unpacked as
\* '<Iii' and the body decoded by _decode_packet_body
DecodePacket(response_data) ==
    RconPacket(UnpackU(SubSeq(response_data, 1, 4)),
               UnpackI(SubSeq(response_data, 5, 8)),
               UnpackI(SubSeq(response_data, 9, 12)),
               _decode_packet_body(Drop(response_data, 12)))

\* ways the bytes of a frame w reach the decoder damaged: the size field one
\* too large or one too small, the frame cut to 8 bytes, a frame of 13
\* bytes that declares 9, a frame of MAX_PACKET_SIZE + 1 bytes that declares
\* its true length
Damaged(w) ==
    { PackU(UnpackU(Take(w, 4)) + 1) \o Drop(w, 4),
      PackU(UnpackU(Take(w, 4)) - 1) \o Drop(w, 4),
      Take(w, 8),
      PackU(9) \o SubSeq(w, 5, 12) \o <<0>>,
      PackU(MAX_PACKET_SIZE - 3) \o Drop(w, 4)
          \o [i \in 1..(MAX_PACKET_SIZE + 1 - Len(w)) |-> 0] }

\* what the loop of _send_packet holds when the frame arrives: nothing, or
\* one accepted packet with body "X"
Priors ==
    { [count |-> 0, rtype |-> <<>>, body |-> <<>>],
      [count |-> 1, rtype |-> <<RESPONSE_VALUE>>, body |-> <<88>>] }

CodecInit ==
    /\ ClientInit
    /\ retry_count = 0
    /\ timeouts = NoTimeouts
    /\ supervisor = NoSupervisor
    /\ scheduler = NoScheduler
    /\ \E i \in CodecIds, t \in CodecTypes, b \in CodecBodies :
          codec = [NoCodec EXCEPT !.stage = "input", !.id = i, !.type = t, !.body = b]

\* the request frame is built
CodecEncode ==
    /\ codec.stage = "input"
    /\ codec' = [codec EXCEPT !.stage = "encoded",
                              !.wire = EncodeRequest(codec.id, codec.type, Utf8Encode(codec.body))]
    /\ UNCHANGED << client, late, timeouts, supervisor, scheduler >>

\* the bytes are damaged on the way
CodecDamage ==
    /\ codec.stage = "encoded"
    /\ codec.intact
    /\ \E w \in Damaged(codec.wire) :
          codec' = [codec EXCEPT !.wire = w, !.intact = FALSE]
    /\ UNCHANGED << client, late, timeouts, supervisor, scheduler >>

\* one pass of the loop body of _send_packet on the bytes, for a request of
\* the packet's own id and type
CodecDecode ==
    /\ codec.stage = "encoded"
    /\ \E p \in Priors :
          codec' = [codec EXCEPT
                       !.stage = "decoded",
                       !.prior = p.body,
                       !.packet = IF Len(codec.wire) >= 12
                                  THEN DecodePacket(codec.wire) ELSE NoPacket,
                       !.pass = << ProcessResponse(codec.wire, codec.type, codec.id,
                                                   p.count, p.rtype, p.body) >>]
    /\ UNCHANGED << client, late, timeouts, supervisor, scheduler >>

CodecNext ==
    \/ CodecEncode
    \/ CodecDamage
    \/ CodecDecode

SpecCodec == CodecInit /\ [][CodecNext]_vars

(***************************************************************************)
(* The timeouts on their own: the values the constructor keeps, and the    *)
(* timeout the socket has when the client connects and when it reads       *)
(***************************************************************************)
Max(a, b) == IF a >= b THEN a ELSE b

\* timeouts a caller may pass, in seconds: none at all, the floor, more than
\* the floor, the defaults
TimeoutArgs == {0, 1, 2, 10, 30}

\* __init__: connect_timeout and read_timeout are floored
TimeoutInit ==
    /\ ClientInit
    /\ retry_count = 0
    /\ codec = NoCodec
    /\ supervisor = NoSupervisor
    /\ scheduler = NoScheduler
    /\ \E c \in TimeoutArgs, r \in TimeoutArgs :
          timeouts = [NoTimeouts EXCEPT !.stage = "closed",
                                        !.given_connect = c, !.given_read = r,
                                        !.connect_timeout = Max(MIN_TIMEOUT, c),
                                        !.read_timeout = Max(MIN_TIMEOUT, r)]

\* connect(timeout) up to socket.connect: the timeout given, or
\* self.connect_timeout when it is None, is set on the new socket
ConnectWithTimeout ==
    /\ timeouts.stage = "closed"
    /\ \E a \in {<<>>} \cup {<<t>> : t \in TimeoutArgs} :
          timeouts' = [timeouts EXCEPT
                          !.stage = "connected",
                          !.op = "connect",
                          !.arg = a,
                          !.applied = IF a # <<>> THEN a[1] ELSE timeouts.connect_timeout]
    /\ UNCHANGED << client, late, codec, supervisor, scheduler >>

\* _send_packet: settimeout(self.read_timeout) before sendall and the reads
SendWithTimeout ==
    /\ timeouts.stage \in {"connected", "drained"}
    /\ timeouts' = [timeouts EXCEPT !.stage = "reading", !.op = "read",
                                    !.applied = timeouts.read_timeout]
    /\ UNCHANGED << client, late, codec, supervisor, scheduler >>

\* _drain_socket: after the non-blocking reads the socket is made blocking
\* again with self.read_timeout
DrainWithTimeout ==
    /\ timeouts.stage = "reading"
    /\ timeouts' = [timeouts EXCEPT !.stage = "drained", !.op = "read",
                                    !.applied = timeouts.read_timeout]
    /\ UNCHANGED << client, late, codec, supervisor, scheduler >>

\* close(): the socket is gone
CloseWithTimeout ==
    /\ timeouts.stage \in {"connected", "reading", "drained"}
    /\ timeouts' = [timeouts EXCEPT !.stage = "closed", !.op = "none", !.applied = 0]
    /\ UNCHANGED << client, late, codec, supervisor, scheduler >>

TimeoutNext ==
    \/ ConnectWithTimeout
    \/ SendWithTimeout
    \/ DrainWithTimeout
    \/ CloseWithTimeout

SpecTimeouts == TimeoutInit /\ [][TimeoutNext]_vars

(***************************************************************************)
(* The supervisor (src/server_runtime/supervisor.py): run(), the launch of *)
(* the server and the signal handlers, which run between any two steps of  *)
(* run()                                                                   *)
(***************************************************************************)
\* exit codes of a server that ends by itself, and of one that
\* stop_server_process ended with SIGTERM or SIGKILL
ExitCodes == {0, 1}
StopCodes == {-15, -9}

\* the client, the codec, the timeouts and the scheduler stand still
SupervisorAlone == UNCHANGED << client, late, codec, timeouts, scheduler >>

SupervisorInit ==
    /\ Idle({"client", "codec", "timeouts", "scheduler"})
    /\ supervisor = [NoSupervisor EXCEPT !.pc = "loop"]

\* run(), the top of the loop: exit_code = 1, _launch_server_once is called
LaunchServerOnce ==
    /\ supervisor.pc = "loop"
    /\ supervisor.calls < MaxCalls
    /\ supervisor' = [supervisor EXCEPT !.pc = "prelaunch", !.exit_code = 1,
                                        !.calls = @ + 1]
    /\ SupervisorAlone

\* _launch_server_once up to wait(): the steps before the launch and Popen
\* succeed and the server runs, or one of them raises; the exception passes
\* the finally clause of run(), which has no except clause, and leaves run()
PreLaunch ==
    /\ supervisor.pc = "prelaunch"
    /\ \/ supervisor' = [supervisor EXCEPT !.pc = "wait", !.server_process = "running",
                                           !.launches = @ + 1]
       \/ supervisor' = [supervisor EXCEPT !.pc = "raised", !.server_process = "None"]
    /\ SupervisorAlone

\* the server process ends by itself
ServerExits ==
    /\ supervisor.pc # "off"
    /\ supervisor.server_process = "running"
    /\ \E c \in ExitCodes :
          supervisor' = [supervisor EXCEPT !.server_process = "exited", !.returncode = c]
    /\ SupervisorAlone

\* server_process.wait() returns, the log line, _cleanup_after_run
WaitReturns ==
    /\ supervisor.pc = "wait"
    /\ supervisor.server_process = "exited"
    /\ supervisor' = [supervisor EXCEPT !.pc = "check", !.exit_code = supervisor.returncode,
                                        !.server_process = "None"]
    /\ SupervisorAlone

\* if self.supervisor_exit_requested: return exit_code
CheckExit ==
    /\ supervisor.pc = "check"
    /\ supervisor' = [supervisor EXCEPT
                         !.pc = IF supervisor.supervisor_exit_requested
                                THEN "returned" ELSE "reset"]
    /\ SupervisorAlone

\* restart_requested and shutdown_in_progress are cleared before the delay
ResetFlags ==
    /\ supervisor.pc = "reset"
    /\ supervisor' = [supervisor EXCEPT !.pc = "sleep", !.restart_requested = FALSE,
                                        !.shutdown_in_progress = FALSE]
    /\ SupervisorAlone

\* time.sleep(server_restart_delay) ends, the loop starts over
RestartDelay ==
    /\ supervisor.pc = "sleep"
    /\ supervisor' = [supervisor EXCEPT !.pc = "loop"]
    /\ SupervisorAlone

\* _perform_shutdown_sequence on the supervisor s: nothing when a shutdown is
\* in progress; otherwise the flag is set and a running server is stopped
\* and ends with code
_perform_shutdown_sequence(s, code) ==
    IF s.shutdown_in_progress THEN s
    ELSE IF s.server_process # "running"
    THEN [s EXCEPT !.shutdown_in_progress = TRUE]
    ELSE [s EXCEPT !.shutdown_in_progress = TRUE, !.server_process = "exited",
                   !.returncode = code]

\* run() is between its first and its last statement
Running == supervisor.pc \notin {"off", "returned", "raised"}

\* SIGTERM, SIGINT or SIGHUP: _handle_shutdown_signal
_handle_shutdown_signal ==
    /\ Running
    /\ supervisor.signals < MaxSignals
    /\ \E code \in StopCodes :
          supervisor' = _perform_shutdown_sequence(
                            [supervisor EXCEPT !.supervisor_exit_requested = TRUE,
                                               !.signals = @ + 1, !.signalled = TRUE],
                            code)
    /\ SupervisorAlone

\* SIGUSR1: _handle_restart_signal
_handle_restart_signal ==
    /\ Running
    /\ supervisor.signals < MaxSignals
    /\ \E code \in StopCodes :
          supervisor' = _perform_shutdown_sequence(
                            [supervisor EXCEPT !.restart_requested = TRUE,
                                               !.signals = @ + 1],
                            code)
    /\ SupervisorAlone

SupervisorNext ==
    \/ LaunchServerOnce
    \/ PreLaunch
    \/ ServerExits
    \/ WaitReturns
    \/ CheckExit
    \/ ResetFlags
    \/ RestartDelay
    \/ _handle_shutdown_signal
    \/ _handle_restart_signal

SpecSupervisor == SupervisorInit /\ [][SupervisorNext]_vars

(***************************************************************************)
(* The restart scheduler (src/asa_ctrl/restart_scheduler.py):              *)
(* run_scheduler and what it calls.  Times are ticks of the clock.         *)
(***************************************************************************)
\* the parts of SERVER_RESTART_WARNINGS, as integers, that are tried
RawParts == {0, 1, 2}
Raws == {<<>>} \cup {<<a>> : a \in RawParts} \cup {<<a, b>> : a \in RawParts, b \in RawParts}

\* SERVER_RESTART_CRON: not set, or an expression
Crons == {"", "* * * * *"}

RemoveAt(s, m) == SubSeq(s, 1, m - 1) \o SubSeq(s, m + 1, Len(s))

\* if value not in values: values.append(value)
RECURSIVE Unique(_)
Unique(s) ==
    IF s = <<>> THEN <<>>
    ELSE LET r == Unique(SubSeq(s, 1, Len(s) - 1))
             v == s[Len(s)]
         IN  IF \E i \in 1..Len(r) : r[i] = v THEN r ELSE Append(r, v)

\* values.sort(reverse=True)
RECURSIVE SortDescending(_)
SortDescending(s) ==
    IF s = <<>> THEN <<>>
    ELSE LET m == CHOOSE i \in 1..Len(s) : \A j \in 1..Len(s) : s[i] >= s[j]
         IN  << s[m] >> \o SortDescending(RemoveAt(s, m))

\* parse_warning_offsets on the integer parts of the setting: the default
\* for an empty setting, ValueError for a part that is not positive,
\* otherwise the distinct values, largest first
parse_warning_offsets(raw) ==
    IF raw = <<>> THEN [error |-> FALSE, values |-> <<30, 5, 1>>]
    ELSE IF \E i \in 1..Len(raw) : raw[i] <= 0 THEN [error |-> TRUE, values |-> <<>>]
    ELSE [error |-> FALSE, values |-> SortDescending(Unique(raw))]

\* events.sort(key=lambda item: item[1]): by time, stable
RECURSIVE SortByTime(_)
SortByTime(s) ==
    IF s = <<>> THEN <<>>
    ELSE LET m == CHOOSE i \in 1..Len(s) :
                      /\ \A j \in 1..Len(s) : s[i].time <= s[j].time
                      /\ \A j \in 1..(i - 1) : s[j].time # s[i].time
         IN  << s[m] >> \o SortByTime(RemoveAt(s, m))

\* the events of one window: the warnings whose time has not passed, by
\* time, then the restart
Events(warnings, next_run, t) ==
    LET all == [i \in 1..Len(warnings) |->
                   [type |-> "warn", time |-> next_run - warnings[i] * TicksPerMinute,
                    payload |-> warnings[i]]]
        due == SelectSeq(all, LAMBDA e : e.time >= t)
    IN  Append(SortByTime(due), [type |-> "restart", time |-> next_run, payload |-> 0])

\* schedule.next_run(now) of a schedule whose next match is d minutes after
\* the minute of now
NextRun(t, d) == (t \div TicksPerMinute) * TicksPerMinute + d * TicksPerMinute

\* the liveness test is passed over whatever the server does
ServerDown_never(server_pid_file, alive) == FALSE

\* if server_pid_file and not _is_process_alive(_read_pid_from_file(...))
ServerDown(server_pid_file, alive) == server_pid_file /\ ~alive

\* an entry of the log of a window: what was done, and whether the server
\* process was alive then
Entry(ev, payload, alive) == [ev |-> ev, payload |-> payload, alive |-> alive]

SchedulerAlone == UNCHANGED << client, late, codec, timeouts, supervisor >>

SchedulerInit ==
    /\ Idle({"client", "codec", "timeouts", "supervisor"})
    /\ \E raw \in Raws, cron \in Crons, f \in BOOLEAN, a \in BOOLEAN, t \in 0..(TicksPerMinute - 1) :
          scheduler = [pc |-> "start", raw |-> raw, cron |-> cron,
                       server_pid_file |-> f,      \* ASA_SERVER_PID_FILE is set
                       alive |-> a,                \* the server process is alive
                       warnings |-> <<>>, now |-> t, next_run |-> 0, events |-> <<>>,
                       idx |-> 0, log |-> <<>>, cycles |-> 0]

\* run_scheduler up to its loop: no cron expression or a bad warning setting
\* end it
RunScheduler ==
    /\ scheduler.pc = "start"
    /\ LET parsed == parse_warning_offsets(scheduler.raw)
       IN  IF scheduler.cron = "" \/ parsed.error
           THEN scheduler' = [scheduler EXCEPT !.pc = "returned"]
           ELSE scheduler' = [scheduler EXCEPT !.pc = "cycle", !.warnings = parsed.values]
    /\ SchedulerAlone

\* the top of the loop: the next run and the events of its window
ComputeWindow ==
    /\ scheduler.pc = "cycle"
    /\ scheduler.cycles < MaxCycles
    /\ \E d \in 1..MaxAhead :
          LET next_run == NextRun(scheduler.now, d)
          IN  scheduler' = [scheduler EXCEPT
                               !.pc = "wait", !.next_run = next_run,
                               !.events = Events(scheduler.warnings, next_run, scheduler.now),
                               !.idx = 1, !.log = <<>>, !.cycles = @ + 1]
    /\ SchedulerAlone

\* the wait for the time of the event: no sleep when it has passed
WaitForEvent ==
    /\ scheduler.pc = "wait"
    /\ LET event_time == scheduler.events[scheduler.idx].time
       IN  IF scheduler.now >= event_time
           THEN scheduler' = [scheduler EXCEPT !.pc = "event"]
           ELSE \E over \in 0..MaxLate :
                   scheduler' = [scheduler EXCEPT !.pc = "event", !.now = event_time + over]
    /\ SchedulerAlone

\* the body of the loop over the events after the wait: the liveness test,
\* then the warning, or the last announcement and _trigger_restart, which
\* signals the supervisor when its PID file names a live process
HandleEvent ==
    /\ scheduler.pc = "event"
    /\ LET event == scheduler.events[scheduler.idx]
           a == scheduler.alive
       IN  IF ServerDown(scheduler.server_pid_file, a)
           THEN scheduler' = [scheduler EXCEPT !.pc = "sleep",
                                               !.log = Append(@, Entry("down", 0, a))]
           ELSE IF event.type = "warn"
           THEN scheduler' = [scheduler EXCEPT !.pc = "wait", !.idx = @ + 1,
                                               !.log = Append(@, Entry("warn", event.payload, a))]
           ELSE \E signalled \in BOOLEAN :
                   scheduler' = [scheduler EXCEPT
                                    !.pc = "sleep",
                                    !.log = @ \o << Entry("now", 0, a),
                                                    Entry(IF signalled THEN "signal" ELSE "nosignal", 0, a) >>]
    /\ SchedulerAlone

\* time.sleep(5) between two windows
WindowSleep ==
    /\ scheduler.pc = "sleep"
    /\ \E over \in 0..MaxLate :
          scheduler' = [scheduler EXCEPT !.pc = "cycle", !.now = @ + over]
    /\ SchedulerAlone

\* the server process ends, or the supervisor has started it again
ServerChanges ==
    /\ scheduler.pc \in {"cycle", "wait", "event", "sleep"}
    /\ scheduler' = [scheduler EXCEPT !.alive = ~@]
    /\ SchedulerAlone

SchedulerNext ==
    \/ RunScheduler
    \/ ComputeWindow
    \/ WaitForEvent
    \/ HandleEvent
    \/ WindowSleep
    \/ ServerChanges

SpecScheduler == SchedulerInit /\ [][SchedulerNext]_vars

(***************************************************************************)
(* Properties                                                              *)
(***************************************************************************)
SentinelFrames == {ServerFrame(-1, ty, b) : ty \in ServerTypes, b \in {<<>>, <<65>>}}
OtherIdFrames == {ServerFrame(packet_id + 1, RESPONSE_VALUE, <<66>>)} \cup SentinelFrames
NonEmptyBodies == ServerBodies \ {<<>>}

\* the body of a frame that carries the request id
EchoBody(frame) ==
    CHOOSE b \in ServerBodies \cup {LateBody} :
        \E ty \in ServerTypes : frame = ServerFrame(packet_id, ty, b)

\* the bodies of the frames of a log, in order
RECURSIVE Bodies(_)
Bodies(rx) ==
    IF rx = <<>> THEN <<>>
    ELSE IF Head(rx).ev = "frame" THEN EchoBody(Head(rx).data) \o Bodies(Tail(rx))
    ELSE Bodies(Tail(rx))

Last(s) == s[Len(s)]
Front(s) == SubSeq(s, 1, Len(s) - 1)

\* a public call on the server has ended
CallEnded == pc = "idle" /\ call \in {"connect", "execute"}

\* C1: on a fresh client, when the EXEC_COMMAND is answered by one
\* RESPONSE_VALUE packet that carries the request id and a non-empty body,
\* execute_command returns exactly that body
C1_EndToEnd ==
    \A b \in NonEmptyBodies :
        ( /\ CallEnded
          /\ call = "execute"
          /\ hist.fresh
          /\ hist.exec_sent = 1
          /\ hist.rx = << Rx("frame", ServerFrame(packet_id, RESPONSE_VALUE, b)),
                          Rx("quiet", <<>>) >> )
        => result = Returned(Utf8Decode(b))

\* C2: RESPONSE_VALUE packets with the request id and non-empty bodies b1, b2,
\* each followed by more data, then an empty-body packet: execute_command
\* returns b1 followed by b2
C2_MultiPacket ==
    \A b1 \in NonEmptyBodies, b2 \in NonEmptyBodies :
        ( /\ CallEnded
          /\ call = "execute"
          /\ hist.exec_sent = 1
          /\ hist.rx = << Rx("frame", ServerFrame(packet_id, RESPONSE_VALUE, b1)),
                          Rx("more", <<>>),
                          Rx("frame", ServerFrame(packet_id, RESPONSE_VALUE, b2)),
                          Rx("more", <<>>),
                          Rx("frame", ServerFrame(packet_id, RESPONSE_VALUE, <<>>)) >> )
        => result = Returned(Utf8Decode(b1 \o b2))

\* _send_packet has just ended on a packet whose id is not the request's
EndedOnOtherId ==
    /\ pc \in {"sp_done", "sp_raise"}
    /\ hist.rx # <<>>
    /\ Last(hist.rx).ev = "frame"
    /\ Last(hist.rx).data \in OtherIdFrames

IsSentinelOfAuth == packet_type = AUTH /\ Last(hist.rx).data \in SentinelFrames

\* C3 as stated: a packet with another id is never appended; as the first
\* packet, unless it is the auth sentinel, it makes the exchange fail with
\* RconPacketError after a drain; after an accepted packet it ends the loop
\* and the exchange returns the bodies accepted before it
C3_IdMismatch_Original ==
    EndedOnOtherId =>
        IF Len(hist.rx) = 1
        THEN IsSentinelOfAuth
             \/ (pc = "sp_raise" /\ exc.kind = "RconPacketError" /\ hist.drained)
        ELSE pc = "sp_done" /\ response.body = Utf8Decode(Bodies(Front(hist.rx)))

\* C3 amended: the same, the auth sentinel of an AUTH exchange excepted in
\* both positions
C3_IdMismatch ==
    (EndedOnOtherId /\ ~IsSentinelOfAuth) =>
        IF Len(hist.rx) = 1
        THEN pc = "sp_raise" /\ exc.kind = "RconPacketError" /\ hist.drained
        ELSE pc = "sp_done" /\ response.body = Utf8Decode(Bodies(Front(hist.rx)))

C3_Witness ==
    /\ EndedOnOtherId
    /\ ~IsSentinelOfAuth
    /\ Len(hist.rx) = 5
    /\ response.body = <<65, 66>>

\* C4: when an attempt of _with_retry failed and another one begins, the
\* flags are false, self.socket is None and the socket held before is closed
C4_RetryResetsState ==
    (pc = "attempt" /\ attempt > 0) =>
        /\ ~_connected
        /\ ~_authenticated
        /\ socket = 0
        /\ hist.prev_socket \notin open

C4_Witness ==
    /\ pc = "attempt"
    /\ attempt > 0
    /\ hist.prev_socket # 0
    /\ hist.first_exc = "RconTimeoutError"

\* C5: when the first attempt of execute_command failed with a transient
\* error of kind K and the retries are exhausted, the error raised is of
\* kind K
C5_ErrorKindKept ==
    ( /\ CallEnded
      /\ inner = "execute_once"
      /\ result.kind = "raise"
      /\ IsTransient(result.exc.kind)
      /\ hist.invocations >= 1 )
    => result.exc.kind = hist.first_exc

\* C6: an attempt of execute_command after the first sends its EXEC packet on
\* a new connection on which it has authenticated again
C6_RetryReestablishes ==
    (pc = "send" /\ inner = "execute_once" /\ attempt > 0) =>
        (socket # 0 /\ _connected /\ _authenticated)

\* C7: when connect() or execute_command() raised on an I/O failure, the flags
\* are false and self.socket is None
C7_FailureDisconnects ==
    ( /\ CallEnded
      /\ result.kind = "raise"
      /\ result.exc.kind \in {"RconTimeoutError", "RconConnectionError", "RconPacketError"} )
    => (~_connected /\ ~_authenticated /\ socket = 0)

\* C8: when the first packet of the reply to AUTH carries id -1, whatever its
\* type and body, _send_packet returns it with id -1, _authenticate raises
\* RconAuthenticationError and the call raises it with _authenticated false
C8_AuthSentinel ==
    ( /\ call \in {"connect", "execute"}
      /\ packet_type = AUTH
      /\ hist.rx # <<>>
      /\ hist.rx[1].ev = "frame"
      /\ hist.rx[1].data \in SentinelFrames )
    => /\ pc \in {"sp_done", "except", "idle"}
       /\ pc = "sp_done" => response.id = -1
       /\ pc = "except" => (exc.kind = "RconAuthenticationError" /\ ~_authenticated)
       /\ pc = "idle" => (result.kind = "raise"
                          /\ result.exc.kind = "RconAuthenticationError"
                          /\ ~_authenticated)

C8_Witness ==
    /\ CallEnded
    /\ packet_type = AUTH
    /\ hist.rx = << Rx("frame", ServerFrame(-1, RESPONSE_VALUE, <<65>>)) >>
    /\ result.exc.kind = "RconAuthenticationError"

NonTransient == {"RconAuthenticationError", "ValueError"}

\* C9 as stated: when the operation of _with_retry raised
\* RconAuthenticationError or ValueError, it was invoked exactly once and
\* nothing was slept
C9_NeverRetried_Original ==
    ( /\ CallEnded
      /\ result.kind = "raise"
      /\ result.exc.kind \in NonTransient
      /\ hist.invocations >= 1 )
    => (hist.invocations = 1 /\ hist.sleeps = <<>>)

\* C9 amended: when the operation of _with_retry raises
\* RconAuthenticationError or ValueError, _with_retry neither sleeps nor
\* invokes it again nor resets the session: the error goes to the caller
C9_NeverRetried ==
    [][ (pc = "except" /\ exc.kind \in NonTransient) =>
            /\ pc' = "idle"
            /\ result' = Raised(exc)
            /\ hist'.sleeps = hist.sleeps
            /\ hist'.invocations = hist.invocations
            /\ UNCHANGED session ]_vars

C9_Witness ==
    /\ CallEnded
    /\ result.exc.kind = "RconAuthenticationError"
    /\ hist.invocations = 2
    /\ retry_count = 1

\* C10: an answer to EXEC_COMMAND of another type than RESPONSE_VALUE makes
\* execute_command raise the unexpected-type error at once: no sleep, no
\* reset, no other attempt
C10_UnexpectedTypeNotRetried ==
    [][ (pc = "except" /\ exc.msg = "Unexpected response type") =>
            /\ pc' = "idle"
            /\ result' = Raised(exc)
            /\ hist'.sleeps = hist.sleeps
            /\ UNCHANGED session ]_vars

\* the commands _validate_command rejects
RejectedCommands == {c \in Commands : _validate_command(c).exc # NoExc}

\* C11: execute_command with the empty string, a string of 1001 characters or
\* a string of control characters only raises the invalid-command error, and
\* the call has created no socket and sent nothing, whatever the state of the
\* session it was made in
C11_RejectedInputNoIO ==
    ( /\ CallEnded
      /\ call = "execute"
      /\ command \in RejectedCommands )
    => /\ result.kind = "raise"
       /\ result.exc.kind = "ValueError"
       /\ hist.opened = 0
       /\ hist.sendall = 0

\* C12: close() returns without raising in every state it is called in, also
\* when socket.close() fails; after it the flags are false, self.socket is
\* None and the socket held before is closed; a close() that follows a
\* close() leaves the session as it is
C12_IdempotentClose ==
    [][ call' = "close" =>
            /\ result' = Returned(<<>>)
            /\ ~_connected'
            /\ ~_authenticated'
            /\ socket' = 0
            /\ socket \notin open'
            /\ call = "close" => UNCHANGED session ]_vars

\* close() has returned on a session that held a socket whose close() failed
C12_Witness ==
    /\ pc = "idle"
    /\ call = "close"
    /\ hist.close_error
    /\ hist.prev_socket # 0
    /\ result = Returned(<<>>)
    /\ socket = 0

\* C13: connect() called while _connected and _authenticated are true returns
\* at once: no socket is created, nothing is sent, and socket, _connected and
\* _authenticated are what they were
C13_ConnectIdempotent ==
    [][ (pc = "idle" /\ call' = "connect" /\ _connected /\ _authenticated) =>
            /\ pc' = "idle"
            /\ result' = Returned(<<>>)
            /\ hist'.opened = 0
            /\ hist'.sendall = 0
            /\ UNCHANGED session ]_vars

\* connect() has returned on a session that was authenticated by an earlier call
C13_Witness ==
    /\ pc = "idle"
    /\ call = "connect"
    /\ ~hist.fresh
    /\ hist.opened = 0
    /\ result = Returned(<<>>)
    /\ socket # 0
    /\ _connected
    /\ _authenticated

\* C14: every _send_packet that has sent its request and gone on to read has
\* called _drain_socket by the time it returns or raises
C14_DrainOnEveryExit ==
    (pc \in {"sp_done", "sp_raise"} /\ hist.rx # <<>>) => hist.drained

\* the declared size of the bytes handed to the decoder, -1 when there is none
DeclaredSize(w) == IF Len(w) >= 4 THEN UnpackU(Take(w, 4)) ELSE -1

\* the size invariant of a frame
SizeOk(w) ==
    /\ DeclaredSize(w) = Len(w) - 4
    /\ 10 <= DeclaredSize(w)
    /\ DeclaredSize(w) <= MAX_PACKET_SIZE - 4

\* C15: a frame the loop body of _send_packet takes satisfies
\* declared_size = raw length - 4 and 10 <= declared_size <= MAX_PACKET_SIZE - 4;
\* a frame that does not is rejected with RconPacketError and the accumulated
\* body stays what it was
C15_SizeInvariant ==
    codec.stage = "decoded" =>
        LET o == codec.pass[1]
        IN  /\ o.ctl # "raise" => SizeOk(codec.wire)
            /\ ~SizeOk(codec.wire) =>
                  /\ o.ctl = "raise"
                  /\ o.exc.kind = "RconPacketError"
                  /\ o.combined_body = codec.prior

\* a frame whose size field is one too large was rejected after a packet
\* with body "X" had been accepted
C15_Witness ==
    /\ codec.stage = "decoded"
    /\ ~codec.intact
    /\ DeclaredSize(codec.wire) = Len(codec.wire) - 3
    /\ codec.prior = <<88>>
    /\ codec.pass[1].exc = Exc("RconPacketError", "Size mismatch")

\* the packet was decoded from the bytes its encoding produced
RoundTrip == codec.stage = "decoded" /\ codec.intact

\* C16 as stated: for any signed 32-bit id, any type and any body of at most
\* 1000 ASCII bytes, decoding the encoding gives the id, the type and the
\* body back
C16_RoundTrip_Original ==
    RoundTrip =>
        /\ codec.pass[1].ctl # "raise"
        /\ codec.packet.id = codec.id
        /\ codec.packet.type = codec.type
        /\ codec.packet.body = codec.body

\* C16 amended: the same for a body without a NUL character, and the size
\* decoded is 10 + the length of the body
C16_RoundTrip ==
    (RoundTrip /\ \A i \in 1..Len(codec.body) : codec.body[i] # 0) =>
        /\ codec.pass[1].ctl # "raise"
        /\ codec.packet.size = 10 + Len(codec.body)
        /\ codec.packet.id = codec.id
        /\ codec.packet.type = codec.type
        /\ codec.packet.body = codec.body

\* the longest body came back under the smallest id
C16_Witness ==
    /\ RoundTrip
    /\ codec.id = (-2147483647) - 1
    /\ Len(codec.body) = MAX_COMMAND_LENGTH
    /\ codec.packet.id = codec.id
    /\ codec.packet.body = codec.body

\* a body holds a byte of the late answer to an earlier command
HasLateBytes(body) == \E i \in 1..Len(body) : body[i] = LateBody[1]

C18_TimeoutFloor ==
    timeouts.op \in {"connect", "read"} => timeouts.applied >= MIN_TIMEOUT

\* C19: at most one socket of the session is open at any time, and
\* self.socket is never given a new socket while the one it holds is open
C19_OneConnection ==
    [][ /\ Cardinality(open') <= 1
        /\ (socket' # socket /\ socket' # 0) => (socket = 0 \/ socket \notin open) ]_vars

\* C20: when connect() has raised RconAuthenticationError, _connected and
\* _authenticated are false, self.socket is None and the socket the attempt
\* connected is closed
C20_AuthFailureDisconnects ==
    ( /\ CallEnded
      /\ call = "connect"
      /\ result.kind = "raise"
      /\ result.exc.kind = "RconAuthenticationError" )
    => /\ ~_connected
       /\ ~_authenticated
       /\ socket = 0
       /\ hist.new_socket \notin open

\* C21: run() is left by an exception of _launch_server_once only when the
\* exit of the supervisor was requested; otherwise run() does not propagate
\* it and the loop goes on
C21_SurvivesLaunchException ==
    supervisor.pc = "raised" =>
        supervisor.supervisor_exit_requested

\* the type field of a frame
FrameType(frame) == UnpackI(SubSeq(frame, 9, 12))

\* _send_packet has returned the packet it builds when its loop ends; the
\* first thing the exchange read is then the first packet it accepted
LoopEnded ==
    /\ pc = "sp_done"
    /\ response.id = packet_id
    /\ hist.rx # <<>>
    /\ hist.rx[1].ev = "frame"

\* C22: the packet _send_packet returns when its loop ends carries the type
\* field of the first accepted response packet, whatever its value, 0
\* included
C22_ObservedType ==
    LoopEnded => response.type = FrameType(hist.rx[1].data)

\* the frames of a log
Frames(rx) == SelectSeq(rx, LAMBDA e : e.ev = "frame")

\* _send_packet has ended on a read that timed out
EndedOnTimeout ==
    /\ pc \in {"sp_done", "sp_raise"}
    /\ hist.rx # <<>>
    /\ Last(hist.rx).ev = "timeout"

\* C23: a read timeout with no packet accepted leaves _send_packet as
\* RconTimeoutError; a read timeout after at least one accepted packet ends
\* the aggregation and the bodies accepted so far are returned
C23_TimeoutInAggregation ==
    EndedOnTimeout =>
        IF Frames(hist.rx) = <<>>
        THEN pc = "sp_raise" /\ exc.kind = "RconTimeoutError"
        ELSE /\ pc = "sp_done"
             /\ response.id = packet_id
             /\ response.body = Utf8Decode(Bodies(hist.rx))

\* a packet was accepted, more data was announced, the next read timed out
C23_Witness ==
    /\ EndedOnTimeout
    /\ pc = "sp_done"
    /\ Len(Frames(hist.rx)) = 2
    /\ response.body = <<65, 66>>

\* a _with_retry of the call ended by raising an error it retries: every
\* attempt it made failed with such an error
RetriesExhausted ==
    /\ CallEnded
    /\ result.kind = "raise"
    /\ IsTransient(result.exc.kind)

AuthExchangeSucceeded ==
    /\ pc = "sp_done"
    /\ packet_type = AUTH
    /\ inner = "connect_once"
    /\ socket # 0
    /\ socket = hist.new_socket
    /\ hist.sendall > 0
    /\ Frames(hist.rx) # <<>>
    /\ response.id # -1

\* C25: _authenticated goes from false to true only in _authenticate, after
\* an AUTH exchange on the socket held returned a response whose id is not
\* -1, and the socket held stays the same; every other step leaves the flag
\* or clears it
C25_AuthenticatedNotFabricated ==
    [][ (~_authenticated /\ _authenticated') =>
            (AuthExchangeSucceeded /\ socket' = socket) ]_vars

\* _authenticate has just set the flag
C25_Witness ==
    /\ pc = "op_ok"
    /\ inner = "connect_once"
    /\ _authenticated
    /\ _connected
    /\ socket = hist.new_socket
    /\ response.id = packet_id

\* C26: execute_command on a session that is not both connected and
\* authenticated runs connect() first, and an EXEC_COMMAND request is sent
\* only on a socket on which an AUTH exchange has succeeded: the step that
\* sends it holds the socket on which _authenticate last succeeded
C26_AuthenticateBeforeExecute ==
    [][ /\ (pc = "idle" /\ pc' = "attempt" /\ call' = "execute"
            /\ ~(_connected /\ _authenticated)) => inner' = "connect_once"
        /\ (hist'.exec_sent > hist.exec_sent) =>
              (socket # 0 /\ socket = hist.authed /\ socket' = socket) ]_vars

\* an EXEC_COMMAND was sent by a call that had to connect first
C26_Witness ==
    /\ call = "execute"
    /\ hist.exec_sent = 1
    /\ hist.opened = 1
    /\ pc = "recv"
    /\ packet_type = EXEC_COMMAND

\* the reply to the AUTH request holds a packet with id -1, read by the
\* exchange or thrown away unread by its drain, and _authenticate or the
\* whole call is over
RefusedAuthEvaluated ==
    /\ packet_type = AUTH
    /\ inner = "connect_once"
    /\ pc \in {"op_ok", "idle"}
    /\ call \in {"connect", "execute"}
    /\ \/ \E i \in 1..Len(hist.rx) : hist.rx[i].data \in SentinelFrames
       \/ \E i \in 1..Len(hist.discarded) : hist.discarded[i] \in SentinelFrames

\* C27: when the reply to AUTH holds a packet with id -1, whatever its
\* position, the session does not end up authenticated and connect() does
\* not return normally
C27_AuthSoundness ==
    RefusedAuthEvaluated =>
        (~_authenticated /\ pc = "idle" /\ result.kind = "raise")

\* C28: between public calls (after the constructor, and after connect,
\* execute_command or close returned or raised) _authenticated implies
\* _connected, and _connected implies that a socket is held
C28_FlagConsistency ==
    pc = "idle" =>
        /\ _authenticated => _connected
        /\ _connected => socket # 0

\* C29: once a shutdown signal has been handled, at whatever point of
\* run(), no further server process is started
C29_ShutdownIsFinal ==
    [][ supervisor.signalled => supervisor'.launches = supervisor.launches ]_vars

\* the order of the entries of the log of a window: warnings by decreasing
\* offset, none after the last announcement, the signal right after it
InOrder(log) ==
    /\ \A i \in 1..Len(log), j \in 1..Len(log) :
          (i < j /\ log[i].ev = "warn" /\ log[j].ev = "warn") => log[i].payload > log[j].payload
    /\ \A i \in 1..Len(log), j \in 1..Len(log) :
          (i < j /\ log[i].ev = "now") => log[j].ev # "warn"
    /\ \A j \in 1..Len(log) :
          log[j].ev = "signal" => (j > 1 /\ log[j - 1].ev = "now")

\* an event found the server process dead: nothing was announced then, the
\* window ended there and the supervisor was not signalled in it
DeadServerSkips(log) ==
    \A j \in 1..Len(log) :
        ~log[j].alive =>
            /\ log[j].ev = "down"
            /\ j = Len(log)
            /\ \A i \in 1..Len(log) : log[i].ev # "signal"
            /\ scheduler.pc \in {"sleep", "cycle"}

\* C30 as stated: the order of the announcements, and the skip whenever the
\* server process is not alive at the time of an event
C30_EventOrder_Original ==
    scheduler.pc \notin {"off", "start", "returned"} =>
        (InOrder(scheduler.log) /\ DeadServerSkips(scheduler.log))

\* C30: within one window the warnings are announced by decreasing offset,
\* each at most once, all before the last announcement, and the supervisor
\* is signalled only after it; when ASA_SERVER_PID_FILE is set and the
\* server process is not alive at the time of an event, the rest of the
\* window is skipped and the supervisor is not signalled
C30_EventOrder ==
    scheduler.pc \notin {"off", "start", "returned"} =>
        /\ InOrder(scheduler.log)
        /\ scheduler.server_pid_file => DeadServerSkips(scheduler.log)

\* two warnings, the last announcement and the signal, in one window
C30_Witness ==
    /\ scheduler.pc = "sleep"
    /\ scheduler.server_pid_file
    /\ Len(scheduler.log) = 4
    /\ scheduler.log[1].ev = "warn"
    /\ scheduler.log[2].ev = "warn"
    /\ scheduler.log[4].ev = "signal"

====
